---- MODULE Spec2Model ----
(***************************************************************************)
(* ColorMind: the colour analysis and palette generation pipeline of       *)
(* src/palette_generator.py and src/color_processor.py.                    *)
(*                                                                         *)
(* Numbers.  The program computes in Python floats.  The model computes    *)
(* the same expressions in exact rational arithmetic (a rational is a pair *)
(* <<n, d>> in lowest terms, d > 0).  A float result differs from the      *)
(* exact one by a relative error near 2^-52, far less than the distance    *)
(* between an exact non-integer value of these formulas and the nearest    *)
(* integer, so int(x) of the program is the truncation of the exact value  *)
(* unless the exact value is itself an integer n: there the float may fall *)
(* on either side of n, and int(x) is modelled as the choice among the     *)
(* integers it can then produce (IntOf).  A conversion therefore yields    *)
(* the set of its possible results, and an action picks one of them.       *)
(*                                                                         *)
(* Values computed once and used several times are passed as operator      *)
(* parameters (maxc, minc, sumc, rangec, m1, m2 below are the locals of    *)
(* the same names in colorsys).                                            *)
(***************************************************************************)
EXTENDS Integers, Sequences, FiniteSets, TLC

VARIABLES call, palette

vars == <<call, palette>>

(***************************************************************************)
(* Exact rational arithmetic                                               *)
(***************************************************************************)
Abs(n) == IF n < 0 THEN -n ELSE n

RECURSIVE Gcd(_, _)
Gcd(a, b) == IF b = 0 THEN a ELSE Gcd(b, a % b)

Lowest(n, d, g) == <<n \div g, d \div g>>

\* the rational n/d in lowest terms with a positive denominator (d # 0)
Rat(n, d) ==
    IF d < 0 THEN Lowest(-n, -d, Gcd(Abs(n), -d))
    ELSE Lowest(n, d, Gcd(Abs(n), d))

Zero == <<0, 1>>
One == <<1, 1>>
Two == <<2, 1>>
Half == <<1, 2>>

AddOver(x, y, g) ==
    Rat(x[1] * (y[2] \div g) + y[1] * (x[2] \div g), (x[2] \div g) * y[2])

Add(x, y) == AddOver(x, y, Gcd(x[2], y[2]))

Neg(x) == <<-x[1], x[2]>>

Sub(x, y) == Add(x, Neg(y))

MulOver(x, y, g1, g2) ==
    <<(x[1] \div g1) * (y[1] \div g2), (x[2] \div g2) * (y[2] \div g1)>>

Mul(x, y) == MulOver(x, y, Gcd(Abs(x[1]), y[2]), Gcd(Abs(y[1]), x[2]))

\* 1 / y, for y # 0
Inverse(y) == IF y[1] < 0 THEN <<-y[2], -y[1]>> ELSE <<y[2], y[1]>>

Div(x, y) == Mul(x, Inverse(y))

LtOver(x, y, g) == x[1] * (y[2] \div g) < y[1] * (x[2] \div g)

Lt(x, y) == LtOver(x, y, Gcd(x[2], y[2]))

Le(x, y) == ~Lt(y, x)

RMax(x, y) == IF Lt(x, y) THEN y ELSE x

RMin(x, y) == IF Lt(y, x) THEN y ELSE x

\* Python's x % k for an integer k > 0: the result lies in [0, k)
ModInt(x, k) == <<x[1] % (k * x[2]), x[2]>>

\* int(x) of an exact value: truncation toward zero
TruncOf(x) == IF x[1] >= 0 THEN x[1] \div x[2] ELSE -((-x[1]) \div x[2])

\* int(x) of the float that approximates the exact value x: the truncation,
\* except that a float next to an exact integer n may lie on either side of n
IntOf(x) ==
    IF x[2] # 1 THEN {TruncOf(x)}
    ELSE IF x[1] > 0 THEN {x[1] - 1, x[1]}
    ELSE IF x[1] < 0 THEN {x[1], x[1] + 1}
    ELSE {0}

\* int(x * k)
IntTimes(x, k) == IntOf(Mul(x, <<k, 1>>))

\* every sequence whose i-th element is drawn from the i-th set of ss
RECURSIVE Product(_)
Product(ss) ==
    IF ss = <<>> THEN {<<>>}
    ELSE {<<x>> \o t : x \in Head(ss), t \in Product(Tail(ss))}

(***************************************************************************)
(* colorsys (the standard library the program calls)                       *)
(***************************************************************************)
ONE_THIRD == <<1, 3>>
ONE_SIXTH == <<1, 6>>
TWO_THIRD == <<2, 3>>
Six == <<6, 1>>

Max3(r, g, b) == RMax(r, RMax(g, b))
Min3(r, g, b) == RMin(r, RMin(g, b))

\* s of rgb_to_hls, with l = sumc / 2.0
HlsSaturation(maxc, minc, sumc, rangec) ==
    IF Le(Div(sumc, Two), Half) THEN Div(rangec, sumc)
    ELSE Div(rangec, Sub(Sub(Two, maxc), minc))

\* h of rgb_to_hls before h = (h/6.0) % 1.0
HlsSextant(r, g, b, maxc, rangec) ==
    IF r = maxc THEN Sub(Div(Sub(maxc, b), rangec), Div(Sub(maxc, g), rangec))
    ELSE IF g = maxc
    THEN Sub(Add(Two, Div(Sub(maxc, r), rangec)), Div(Sub(maxc, b), rangec))
    ELSE Sub(Add(<<4, 1>>, Div(Sub(maxc, g), rangec)), Div(Sub(maxc, r), rangec))

HlsOf(r, g, b, maxc, minc) ==
    IF minc = maxc THEN <<Zero, Div(Add(maxc, minc), Two), Zero>>
    ELSE <<ModInt(Div(HlsSextant(r, g, b, maxc, Sub(maxc, minc)), Six), 1),
           Div(Add(maxc, minc), Two),
           HlsSaturation(maxc, minc, Add(maxc, minc), Sub(maxc, minc))>>

\* colorsys.rgb_to_hls(r, g, b) = <<h, l, s>>
RgbToHls(r, g, b) == HlsOf(r, g, b, Max3(r, g, b), Min3(r, g, b))

\* rgb_to_hls raises ZeroDivisionError when the divisor 2.0-maxc-minc is
\* zero, which takes channels outside [0,1]
HlsZeroDivisor(maxc, minc) ==
    /\ minc # maxc
    /\ Lt(Half, Div(Add(maxc, minc), Two))
    /\ Sub(Sub(Two, maxc), minc) = Zero

RgbToHlsRaises(r, g, b) == HlsZeroDivisor(Max3(r, g, b), Min3(r, g, b))

\* colorsys._v(m1, m2, hue) after hue = hue % 1.0
HlsVOf(m1, m2, hue) ==
    IF Lt(hue, ONE_SIXTH) THEN Add(m1, Mul(Mul(Sub(m2, m1), hue), Six))
    ELSE IF Lt(hue, Half) THEN m2
    ELSE IF Lt(hue, TWO_THIRD)
    THEN Add(m1, Mul(Mul(Sub(m2, m1), Sub(TWO_THIRD, hue)), Six))
    ELSE m1

\* colorsys._v(m1, m2, hue)
HlsV(m1, m2, hue) == HlsVOf(m1, m2, ModInt(hue, 1))

HlsM2(l, s) ==
    IF Le(l, Half) THEN Mul(l, Add(One, s)) ELSE Sub(Add(l, s), Mul(l, s))

HlsChannels(m1, m2, h) ==
    <<HlsV(m1, m2, Add(h, ONE_THIRD)), HlsV(m1, m2, h), HlsV(m1, m2, Sub(h, ONE_THIRD))>>

HlsFromM2(h, l, m2) == HlsChannels(Sub(Mul(Two, l), m2), m2, h)

\* colorsys.hls_to_rgb(h, l, s) = <<r, g, b>>
HlsToRgb(h, l, s) == IF s = Zero THEN <<l, l, l>> ELSE HlsFromM2(h, l, HlsM2(l, s))

\* [int(r * 255), int(g * 255), int(b * 255)] of three float channels
Ints255(c) ==
    {<<r, g, b>> : r \in IntTimes(c[1], 255), g \in IntTimes(c[2], 255),
                   b \in IntTimes(c[3], 255)}

\* r, g, b = colorsys.hls_to_rgb(h, l, s) followed by
\* [int(r * 255), int(g * 255), int(b * 255)]: every triple the truncation of
\* the three float channels can give.  With s = 0 hls_to_rgb returns the one
\* float l three times, so the three truncations agree.
Scale255(h, l, s) ==
    IF s = Zero THEN {<<n, n, n>> : n \in IntTimes(l, 255)}
    ELSE Ints255(HlsToRgb(h, l, s))

ScaleHls(a) == Scale255(a[1], a[2], a[3])

\* colorsys.rgb_to_hls(rgb[0] / 255.0, rgb[1] / 255.0, rgb[2] / 255.0)
RgbHls(rgb) == RgbToHls(Rat(rgb[1], 255), Rat(rgb[2], 255), Rat(rgb[3], 255))

\* the same call raises
RaisesOn(rgb) == RgbToHlsRaises(Rat(rgb[1], 255), Rat(rgb[2], 255), Rat(rgb[3], 255))

(***************************************************************************)
(* PaletteGenerator: configuration tables (lines 14-60)                    *)
(***************************************************************************)
StyleRules ==
    [japandi |-> [saturation_range |-> <<Rat(5, 100), Rat(25, 100)>>,
                  lightness_range |-> <<Rat(7, 10), Rat(95, 100)>>],
     scandinavian |-> [saturation_range |-> <<Rat(1, 10), Rat(4, 10)>>,
                       lightness_range |-> <<Rat(75, 100), Rat(95, 100)>>],
     minimalist |-> [saturation_range |-> <<Rat(0, 1), Rat(15, 100)>>,
                     lightness_range |-> <<Rat(2, 10), Rat(95, 100)>>],
     industrial |-> [saturation_range |-> <<Rat(1, 10), Rat(5, 10)>>,
                     lightness_range |-> <<Rat(2, 10), Rat(7, 10)>>],
     mediterranean |-> [saturation_range |-> <<Rat(3, 10), Rat(8, 10)>>,
                        lightness_range |-> <<Rat(4, 10), Rat(8, 10)>>]]

\* the mood table with "calm" as a neutral entry
MoodAdjustmentsCalmNeutral ==
    [calm |-> [saturation |-> Rat(0, 1), lightness |-> Rat(0, 1)],
     cozy |-> [saturation |-> Rat(1, 10), lightness |-> Rat(-1, 10)],
     luxury |-> [saturation |-> Rat(2, 10), lightness |-> Rat(-2, 10)],
     energetic |-> [saturation |-> Rat(3, 10), lightness |-> Rat(0, 1)]]

MoodAdjustments ==
    [calm |-> [saturation |-> Rat(-2, 10), lightness |-> Rat(1, 10)],
     cozy |-> [saturation |-> Rat(1, 10), lightness |-> Rat(-1, 10)],
     luxury |-> [saturation |-> Rat(2, 10), lightness |-> Rat(-2, 10)],
     energetic |-> [saturation |-> Rat(3, 10), lightness |-> Rat(0, 1)]]

LightingAdjustments ==
    [daylight |-> [temperature |-> Rat(0, 1), brightness |-> Rat(0, 1)],
     warm_light |-> [temperature |-> Rat(1, 10), brightness |-> Rat(-5, 100)],
     cool_led |-> [temperature |-> Rat(-1, 10), brightness |-> Rat(5, 100)]]

\* dict.get(key, default)
Get(table, key, default) == IF key \in DOMAIN table THEN table[key] ELSE default

\* self.style_rules.get(style, self.style_rules['scandinavian'])
StyleRule(style) == Get(StyleRules, style, StyleRules["scandinavian"])

\* a lookup that falls back to the first entry of the table
MoodAdjFirstEntry(mood) == Get(MoodAdjustments, mood, MoodAdjustments["calm"])

\* self.mood_adjustments.get(mood, {'saturation': 0, 'lightness': 0})
MoodAdj(mood) == Get(MoodAdjustments, mood, [saturation |-> Zero, lightness |-> Zero])

\* self.lighting_adjustments.get(lighting, {'temperature': 0, 'brightness': 0})
LightingAdj(lighting) ==
    Get(LightingAdjustments, lighting, [temperature |-> Zero, brightness |-> Zero])

(***************************************************************************)
(* PaletteGenerator: the Converter                                         *)
(***************************************************************************)
HexDigits == <<"0", "1", "2", "3", "4", "5", "6", "7",
               "8", "9", "a", "b", "c", "d", "e", "f">>

RECURSIVE HexStr(_)
HexStr(n) ==
    IF n < 16 THEN HexDigits[n + 1]
    ELSE HexStr(n \div 16) \o HexDigits[(n % 16) + 1]

\* '{:02x}'.format(n): lowercase hex, sign included, zero-padded to width 2
Format02x(n) ==
    IF n < 0 THEN "-" \o HexStr(-n)
    ELSE IF n < 16 THEN "0" \o HexStr(n)
    ELSE HexStr(n)

\* _rgb_to_hex
RgbToHex(rgb) == "#" \o Format02x(rgb[1]) \o Format02x(rgb[2]) \o Format02x(rgb[3])

HslInts(hls) ==
    {[h |-> h, s |-> s, l |-> l] :
        h \in IntTimes(hls[1], 360), s \in IntTimes(hls[3], 100), l \in IntTimes(hls[2], 100)}

\* _rgb_to_hsl: every {h, s, l} the three truncations can give
RgbToHsl(rgb) == HslInts(RgbHls(rgb))

CmykInts(c, m, y, k) ==
    {[c |-> ci, m |-> mi, y |-> yi, k |-> ki] :
        ci \in IntTimes(c, 100), mi \in IntTimes(m, 100),
        yi \in IntTimes(y, 100), ki \in IntTimes(k, 100)}

\* lines 403-415, with k = 1 - max(r, g, b)
CmykOf(r, g, b, k) ==
    IF k = One THEN {[c |-> 0, m |-> 0, y |-> 0, k |-> 100]}
    ELSE CmykInts(Div(Sub(Sub(One, r), k), Sub(One, k)),
                  Div(Sub(Sub(One, g), k), Sub(One, k)),
                  Div(Sub(Sub(One, b), k), Sub(One, k)), k)

CmykOfUnit(r, g, b) == CmykOf(r, g, b, Sub(One, Max3(r, g, b)))

\* _rgb_to_cmyk: every {c, m, y, k} the four truncations can give
RgbToCmyk(rgb) == CmykOfUnit(Rat(rgb[1], 255), Rat(rgb[2], 255), Rat(rgb[3], 255))

\* _hsl_to_rgb(h, s, l), h in degrees
HslToRgb(h, s, l) == Scale255(Div(h, <<360, 1>>), l, s)

(***************************************************************************)
(* PaletteGenerator: harmony colours                                       *)
(***************************************************************************)
\* (h + n) % 360
Turn(h, n) == ModInt(Add(h, <<n, 1>>), 360)

\* x * n/10 and x + n/10
Tenths(x, n) == Mul(x, Rat(n, 10))
Plus(x, n) == Add(x, Rat(n, 10))

\* the (h, s, l) argument triples _generate_harmony_colors passes to
\* _hsl_to_rgb, in order
HarmonyArgs(h, s, l, harmony_type) ==
    CASE harmony_type = "complementary" ->
           << <<h, s, l>>,
              <<Turn(h, 180), Tenths(s, 8), l>>,
              <<h, Tenths(s, 3), Plus(l, 2)>>,
              <<Turn(h, 180), Tenths(s, 3), Plus(l, 2)>>,
              <<h, Tenths(s, 1), Plus(l, 3)>> >>
      [] harmony_type = "analogous" ->
           << <<h, s, l>>,
              <<Turn(h, 30), Tenths(s, 9), l>>,
              <<Turn(h, -30), Tenths(s, 9), l>>,
              <<Turn(h, 60), Tenths(s, 7), Plus(l, 1)>>,
              <<Turn(h, -60), Tenths(s, 7), Plus(l, 1)>> >>
      [] harmony_type = "triadic" ->
           << <<h, s, l>>,
              <<Turn(h, 120), Tenths(s, 8), l>>,
              <<Turn(h, 240), Tenths(s, 8), l>>,
              <<h, Tenths(s, 3), Plus(l, 2)>>,
              <<Turn(h, 120), Tenths(s, 3), Plus(l, 2)>> >>
      [] harmony_type = "tetradic" ->
           << <<h, s, l>>,
              <<Turn(h, 90), Tenths(s, 9), l>>,
              <<Turn(h, 180), Tenths(s, 8), l>>,
              <<Turn(h, 270), Tenths(s, 9), l>>,
              <<h, Tenths(s, 2), Plus(l, 3)>> >>
      [] harmony_type = "monochromatic" ->
           << <<h, s, l>>,
              <<h, Tenths(s, 8), Plus(l, 1)>>,
              <<h, Tenths(s, 6), Plus(l, 2)>>,
              <<h, Tenths(s, 4), Plus(l, 3)>>,
              <<h, Tenths(s, 2), Plus(l, 4)>> >>
      [] OTHER -> <<>>

\* the colour lists the calls of _hsl_to_rgb on the triples a can give
HslToRgbEach(a) == Product([i \in 1..Len(a) |-> HslToRgb(a[i][1], a[i][2], a[i][3])])

\* a tetradic scheme that stops at its four hues
GenerateHarmonyColorsFourHues(h, s, l, harmony_type) ==
    HslToRgbEach(IF harmony_type = "tetradic"
                 THEN SubSeq(HarmonyArgs(h, s, l, harmony_type), 1, 4)
                 ELSE HarmonyArgs(h, s, l, harmony_type))

\* _generate_harmony_colors: every colour list it can return
GenerateHarmonyColors(h, s, l, harmony_type) ==
    HslToRgbEach(HarmonyArgs(h, s, l, harmony_type))

\* h, l, s = colorsys.rgb_to_hls(...); h = h * 360: the seed <<h, s, l>>
SeedFrom(hls) == <<Mul(hls[1], <<360, 1>>), hls[3], hls[2]>>
SeedOf(rgb) == SeedFrom(RgbHls(rgb))

(***************************************************************************)
(* PaletteGenerator: seed selection                                        *)
(***************************************************************************)
Within(range, x) == Le(range[1], x) /\ Le(x, range[2])

\* a test that looks at the saturation only
FitsStyleSaturationOnly(color_info, style_rule) ==
    Within(style_rule.saturation_range, Rat(color_info.hsl.s, 100))

\* the test of line 223 on one dominant colour
FitsStyle(color_info, style_rule) ==
    /\ Within(style_rule.saturation_range, Rat(color_info.hsl.s, 100))
    /\ Within(style_rule.lightness_range, Rat(color_info.hsl.l, 100))

\* the loop of lines 214-224
RECURSIVE FilterFits(_, _)
FilterFits(dominant_colors, style_rule) ==
    IF dominant_colors = <<>> THEN <<>>
    ELSE (IF FitsStyle(Head(dominant_colors), style_rule)
          THEN <<Head(dominant_colors).rgb>> ELSE <<>>)
         \o FilterFits(Tail(dominant_colors), style_rule)

\* [color_info['rgb'] for color_info in dominant_colors[:3]]
FirstThreeRgb(dominant_colors) ==
    [i \in 1..(IF Len(dominant_colors) < 3 THEN Len(dominant_colors) ELSE 3) |->
        dominant_colors[i].rgb]

SelectedOr(selected_colors, dominant_colors) ==
    IF selected_colors = <<>> THEN FirstThreeRgb(dominant_colors) ELSE selected_colors

\* _select_style_colors
SelectStyleColors(dominant_colors, style) ==
    SelectedOr(FilterFits(dominant_colors, StyleRule(style)), dominant_colors)

(***************************************************************************)
(* PaletteGenerator: mood and lighting adjustment                          *)
(***************************************************************************)
\* max(0, min(1, x))
\* a value passed on as it is
Unclamped(x) == x

Clamp01(x) == RMax(Zero, RMin(One, x))

HueStep == <<1, 50>>

\* a shift that stops at the ends of the hue range
PipelineHueClamped(h, temperature) ==
    IF Lt(Zero, temperature) THEN RMin(One, Add(h, HueStep))
    ELSE IF Lt(temperature, Zero) THEN RMax(Zero, Sub(h, HueStep))
    ELSE h

\* lines 249-252: the hue after the lighting shift of the pipeline adjuster
PipelineHue(h, temperature) ==
    IF Lt(Zero, temperature)
    THEN (IF Lt(h, <<49, 50>>) THEN Add(h, HueStep) ELSE h)
    ELSE IF Lt(temperature, Zero)
    THEN (IF Lt(HueStep, h) THEN Sub(h, HueStep) ELSE h)
    ELSE h

\* lines 245-254: the <<h, l, s>> handed to hls_to_rgb
PipelineAdjust(hls, mood_adj, lighting_adj) ==
    <<PipelineHue(hls[1], lighting_adj.temperature),
      Clamp01(Add(Clamp01(Add(hls[2], mood_adj.lightness)), lighting_adj.brightness)),
      Clamp01(Add(hls[3], mood_adj.saturation))>>

PipelineHls(rgb, mood, lighting) ==
    PipelineAdjust(RgbHls(rgb), MoodAdj(mood), LightingAdj(lighting))

\* the adjusted_rgb values one colour can get in _apply_style_mood_lighting
PipelineRgb(rgb, mood, lighting) == ScaleHls(PipelineHls(rgb, mood, lighting))

\* rgb_to_hls raises on one of the colours
AnyRaises(colors) == \E i \in 1..Len(colors) : RaisesOn(colors[i])

\* _apply_style_mood_lighting: every colour list it can return
ApplyStyleMoodLighting(colors, style, mood, lighting) ==
    Product([i \in 1..Len(colors) |-> PipelineRgb(colors[i], mood, lighting)])

(***************************************************************************)
(* PaletteGenerator: palette assembly                                      *)
(***************************************************************************)
Roles == <<"Primary", "Secondary", "Accent", "Neutral", "Background">>

DecDigits == <<"0", "1", "2", "3", "4", "5", "6", "7", "8", "9">>

\* the decimal text of n >= 0, as an f-string formats it
RECURSIVE IntToStr(_)
IntToStr(n) ==
    IF n < 10 THEN DecDigits[n + 1]
    ELSE IntToStr(n \div 10) \o DecDigits[(n % 10) + 1]

\* a label that counts from 0
RoleAtFromZero(i) == IF i < Len(Roles) THEN Roles[i + 1] ELSE "Color " \o IntToStr(i)

\* roles[i] if i < len(roles) else f'Color {i + 1}', i counted from 0
RoleAt(i) == IF i < Len(Roles) THEN Roles[i + 1] ELSE "Color " \o IntToStr(i + 1)

\* the color_info records of one colour at position i (counted from 0)
ColorInfo(rgb, i) ==
    {[rgb |-> rgb, hex |-> RgbToHex(rgb), hsl |-> hsl, cmyk |-> cmyk,
      role |-> RoleAt(i), locked |-> FALSE] :
        hsl \in RgbToHsl(rgb), cmyk \in RgbToCmyk(rgb)}

\* _assign_color_roles: every palette it can return
AssignColorRoles(colors) ==
    Product([i \in 1..Len(colors) |-> ColorInfo(colors[i], i - 1)])

(***************************************************************************)
(* PaletteGenerator: standalone lighting adjustment                        *)
(***************************************************************************)
\* color.get('rgb', [128, 128, 128])
RgbOf(color) == IF "rgb" \in DOMAIN color THEN color.rgb ELSE <<128, 128, 128>>

\* lines 312-315: the hue after the lighting shift of adjust_for_lighting
StandaloneHue(h, temperature) ==
    IF Lt(Zero, temperature) THEN RMin(One, Add(h, HueStep))
    ELSE IF Lt(temperature, Zero) THEN RMax(Zero, Sub(h, HueStep))
    ELSE h

\* lines 312-317: the <<h, l, s>> handed to hls_to_rgb
StandaloneAdjust(hls, lighting_adj) ==
    <<StandaloneHue(hls[1], lighting_adj.temperature),
      Clamp01(Add(hls[2], lighting_adj.brightness)),
      hls[3]>>

\* the adjusted_rgb values one colour can get in adjust_for_lighting
StandaloneRgb(rgb, lighting_type) ==
    ScaleHls(StandaloneAdjust(RgbHls(rgb), LightingAdj(lighting_type)))

\* lines 323-325: a copy of the entry with rgb and hex set
AdjustedColor(color, adjusted_rgb) ==
    [k \in DOMAIN color \cup {"rgb", "hex"} |->
        IF k = "rgb" THEN adjusted_rgb
        ELSE IF k = "hex" THEN RgbToHex(adjusted_rgb)
        ELSE color[k]]

\* adjust_for_lighting: every entry list it can return
AdjustForLighting(colors, lighting_type) ==
    Product([i \in 1..Len(colors) |->
        {AdjustedColor(colors[i], a) : a \in StandaloneRgb(RgbOf(colors[i]), lighting_type)}])

\* entries written in place, without the copy
CallerListAfterInPlace(colors, adjusted_colors) == adjusted_colors

\* the caller's list once adjust_for_lighting has returned: every entry is
\* copied (color.copy()) before it is written, so the list is as it was
CallerListAfter(colors, adjusted_colors) == colors

(***************************************************************************)
(* ColorProcessor: its own copy of the CMYK conversion                     *)
(***************************************************************************)
\* k = 1 - max(r, g, b)
ProcessorKey(r, g, b) == Sub(<<1, 1>>, RMax(RMax(r, g), b))

\* an ink whose numerator forgets the key
ProcessorInkWithoutKey(v, k) == Div(Sub(<<1, 1>>, v), Sub(<<1, 1>>, k))

\* (1 - v - k) / (1 - k) for the channel v
ProcessorInk(v, k) == Div(Sub(Sub(<<1, 1>>, v), k), Sub(<<1, 1>>, k))

\* color_processor.py lines 110-123
ProcessorCmykOf(r, g, b, k) ==
    IF k = <<1, 1>> THEN {[c |-> 0, m |-> 0, y |-> 0, k |-> 100]}
    ELSE {[c |-> ci, m |-> mi, y |-> yi, k |-> ki] :
            ci \in IntTimes(ProcessorInk(r, k), 100),
            mi \in IntTimes(ProcessorInk(g, k), 100),
            yi \in IntTimes(ProcessorInk(b, k), 100),
            ki \in IntTimes(k, 100)}

ProcessorCmykOfUnit(r, g, b) == ProcessorCmykOf(r, g, b, ProcessorKey(r, g, b))

\* ColorProcessor._rgb_to_cmyk: every {c, m, y, k} the truncations can give
ProcessorRgbToCmyk(rgb) ==
    ProcessorCmykOfUnit(Rat(rgb[1], 255), Rat(rgb[2], 255), Rat(rgb[3], 255))

(***************************************************************************)
(* ColorProcessor: the brightness filter                                   *)
(***************************************************************************)
dark_threshold == 30
light_threshold == 225

\* brightness > dark_threshold and brightness < light_threshold, where
\* brightness is the mean of the three channels: the sum of three integers
\* below 2^8 is exact in a float and its third is rounded monotonically, so
\* the test agrees with the test on the sum
Mask(pixel) ==
    /\ pixel[1] + pixel[2] + pixel[3] > 3 * dark_threshold
    /\ pixel[1] + pixel[2] + pixel[3] < 3 * light_threshold

\* a fallback that is also taken when exactly a tenth remains
KeptOrOriginalInclusive(pixels, filtered_pixels) ==
    IF Len(filtered_pixels) * 10 <= Len(pixels) THEN pixels ELSE filtered_pixels

\* if len(filtered_pixels) < len(pixels) * 0.1: return pixels.  The float
\* product n * 0.1 separates the integers as n / 10 does for every n up to
\* 300 * 300, the largest image after _resize_image
KeptOrOriginal(pixels, filtered_pixels) ==
    IF Len(filtered_pixels) * 10 < Len(pixels) THEN pixels ELSE filtered_pixels

\* _filter_extreme_colors
FilterExtremeColors(pixels) == KeptOrOriginal(pixels, SelectSeq(pixels, Mask))

(***************************************************************************)
(* ColorProcessor: dominant colours.  KMeans is the scikit-learn class:    *)
(* equal pixels get equal labels; a single colour gets label 0; fewer      *)
(* colours than clusters leave clusters empty; otherwise every cluster     *)
(* holds a pixel.  fit raises when there are fewer pixels than clusters.   *)
(***************************************************************************)
Colors(pixels) == {pixels[i] : i \in 1..Len(pixels)}

\* the label KMeans can give each colour
Labelings(colors, n_clusters) ==
    IF Cardinality(colors) = 1 THEN {[c \in colors |-> 0]}
    ELSE IF Cardinality(colors) < n_clusters
    THEN {f \in [colors -> 0..(n_clusters - 1)] :
            \A a, b \in colors : a # b => f[a] # f[b]}
    ELSE {f \in [colors -> 0..(n_clusters - 1)] :
            \A j \in 0..(n_clusters - 1) : \E c \in colors : f[c] = j}

\* kmeans.labels_
Labels(pixels, f) == [i \in 1..Len(pixels) |-> f[pixels[i]]]

CountOf(labels, j) == Cardinality({i \in 1..Len(labels) : labels[i] = j})

MaxLabel(labels) ==
    CHOOSE m \in {labels[i] : i \in 1..Len(labels)} :
        \A i \in 1..Len(labels) : labels[i] <= m

\* np.bincount(labels): one count per label up to the largest label used
BinCount(labels) == [j \in 1..(MaxLabel(labels) + 1) |-> CountOf(labels, j - 1)]

\* the sum of channel k over the first n pixels that carry label j
RECURSIVE ChannelSum(_, _, _, _, _)
ChannelSum(pixels, labels, j, k, n) ==
    IF n = 0 THEN 0
    ELSE ChannelSum(pixels, labels, j, k, n - 1)
            + (IF labels[n] = j THEN pixels[n][k] ELSE 0)

\* the centre of a cluster that holds pixels: the mean of its pixels
ClusterMean(pixels, labels, j, count) ==
    <<Rat(ChannelSum(pixels, labels, j, 1, Len(pixels)), count),
      Rat(ChannelSum(pixels, labels, j, 2, Len(pixels)), count),
      Rat(ChannelSum(pixels, labels, j, 3, Len(pixels)), count)>>

AllGrey(pixels) ==
    \A i \in 1..Len(pixels) : pixels[i][1] = pixels[i][2] /\ pixels[i][2] = pixels[i][3]

\* cluster_centers_.astype(int) of one centre; the three columns of a grey
\* image hold the same numbers and give the same floats
CentreInts(mean, grey) ==
    IF grey THEN {<<n, n, n>> : n \in IntOf(mean[1])}
    ELSE {<<r, g, b>> : r \in IntOf(mean[1]), g \in IntOf(mean[2]), b \in IntOf(mean[3])}

\* the centre of an empty cluster lies on one of the pixels
EmptyCentreInts(pixels, grey) ==
    UNION {CentreInts(<<Rat(c[1], 1), Rat(c[2], 1), Rat(c[3], 1)>>, grey) : c \in Colors(pixels)}

\* row j of colors = kmeans.cluster_centers_.astype(int), j counted from 0
CentreOf(pixels, labels, j, count) ==
    IF count > 0 THEN CentreInts(ClusterMean(pixels, labels, j, count), AllGrey(pixels))
    ELSE EmptyCentreInts(pixels, AllGrey(pixels))

\* list(zip(colors, color_counts)): zip stops with the shorter of the two
ZipColorsCounts(pixels, labels, color_counts) ==
    Product([j \in 1..Len(color_counts) |->
        {<<color, color_counts[j]>> : color \in CentreOf(pixels, labels, j - 1, color_counts[j])}])

\* the place of pair j after sort(key = count, reverse = True): the sort is
\* stable, pairs with equal counts keep their order
PlaceOf(pairs, j) ==
    1 + Cardinality({i \in 1..Len(pairs) :
            \/ pairs[i][2] > pairs[j][2]
            \/ pairs[i][2] = pairs[j][2] /\ i < j})

SortedPairs(pairs) ==
    [p \in 1..Len(pairs) |-> pairs[CHOOSE j \in 1..Len(pairs) : PlaceOf(pairs, j) = p]]

\* the color_info records of one pair at position i (counted from 0);
\* _rgb_to_hex and _rgb_to_hsl have the text of PaletteGenerator's
ExtractedInfo(color, count, total, i) ==
    {[rgb |-> color, hex |-> RgbToHex(color), hsl |-> hsl, cmyk |-> cmyk,
      frequency |-> Rat(count, total), rank |-> i + 1] :
        hsl \in RgbToHsl(color), cmyk \in ProcessorRgbToCmyk(color)}

\* lines 45-56
DominantColors(pairs, total) ==
    Product([i \in 1..Len(pairs) |-> ExtractedInfo(pairs[i][1], pairs[i][2], total, i - 1)])
(***************************************************************************)
(* Inputs                                                                  *)
(***************************************************************************)
Styles == DOMAIN StyleRules \cup {"boho"}
Moods == DOMAIN MoodAdjustments \cup {"playful"}
Lightings == DOMAIN LightingAdjustments \cup {"candle"}
HarmonyTypes == {"complementary", "analogous", "triadic", "tetradic",
                 "monochromatic", "split"}

\* longest list handed to _apply_style_mood_lighting, _assign_color_roles,
\* _select_style_colors and adjust_for_lighting when called directly
MaxApply == 2
MaxRoles == 7
MaxDominant == 4
MaxEntries == 2

\* most runs of equal pixels in an image handed to _filter_extreme_colors
\* and to extract_dominant_colors, and the largest num_colors
MaxRuns == 3
MaxExtractRuns == 2
MaxClusters == 3

\* every sequence over S of length at most n
RECURSIVE SeqsUpTo(_, _)
SeqsUpTo(S, n) ==
    IF n = 0 THEN {<<>>}
    ELSE {<<>>} \cup {<<x>> \o q : x \in S, q \in SeqsUpTo(S, n - 1)}

Distinct(q) == \A i, j \in 1..Len(q) : i # j => q[i] # q[j]

\* seed colours: black, white, greys, hues next to both ends of the hue
\* range, light colours whose tints overflow, dark and saturated colours
SeedColors ==
    {<<0, 0, 0>>, <<255, 255, 255>>, <<2, 2, 2>>, <<131, 131, 131>>,
     <<255, 0, 10>>, <<255, 10, 0>>, <<250, 3, 7>>, <<200, 230, 211>>,
     <<37, 41, 143>>, <<244, 250, 252>>, <<9, 210, 203>>}

\* (25, 0, 3) has the hue 0.98 exactly, as a float too
ApplyColors ==
    {<<255, 0, 10>>, <<131, 131, 131>>, <<10, 200, 90>>, <<0, 0, 0>>, <<25, 0, 3>>}

RoleColors == {<<9, 210, 203>>, <<37, 41, 143>>}

EntryColors == {<<250, 3, 7>>, <<250, 7, 3>>, <<9, 210, 203>>}

\* cluster centres around the scandinavian saturation and lightness limits
DominantRgb ==
    {<<230, 178, 178>>, <<225, 210, 210>>, <<219, 171, 171>>,
     <<203, 176, 176>>, <<201, 189, 189>>}

\* a dominant colour as extract_dominant_colors formats it
DominantInfo(rgb, i) ==
    {[rgb |-> rgb, hex |-> RgbToHex(rgb), hsl |-> hsl, cmyk |-> cmyk, rank |-> i] :
        hsl \in RgbToHsl(rgb), cmyk \in RgbToCmyk(rgb)}

DominantOf(q) == Product([i \in 1..Len(q) |-> DominantInfo(q[i], i)])

DominantLists ==
    UNION {DominantOf(q) : q \in {p \in SeqsUpTo(DominantRgb, MaxDominant) : Distinct(p)}}

\* the colour lists a client posts to /adjust_lighting: palettes made by
\* _assign_color_roles, possibly with the first entry locked by the client,
\* and an entry that carries no rgb
LockFirst(colors) ==
    [i \in 1..Len(colors) |-> IF i = 1 THEN [colors[i] EXCEPT !.locked = TRUE] ELSE colors[i]]

WithLocked(made) == made \cup {LockFirst(p) : p \in made}

PostedLists ==
    WithLocked(UNION {AssignColorRoles(q) : q \in SeqsUpTo(EntryColors, MaxEntries)})
        \cup {<<[role |-> "Accent", locked |-> TRUE]>>}

\* colours for the CMYK conversion: every mix of the ends and the middle
\* of the channel range
CmykLevels == {0, 1, 51, 128, 254, 255}
CmykColors == {<<r, g, b>> : r, g, b \in CmykLevels}

\* images as runs of equal pixels, in reading order
RunLengths == {1, 9}

RECURSIVE Repeat(_, _)
Repeat(pixel, n) == IF n = 0 THEN <<>> ELSE <<pixel>> \o Repeat(pixel, n - 1)

RECURSIVE Expand(_)
Expand(runs) ==
    IF runs = <<>> THEN <<>>
    ELSE Repeat(Head(runs)[1], Head(runs)[2]) \o Expand(Tail(runs))

\* pixels on and next to the two brightness thresholds
FilterPixels == {<<30, 30, 30>>, <<30, 30, 31>>, <<225, 225, 225>>, <<224, 225, 225>>}

FilterImages == {Expand(q) : q \in SeqsUpTo(FilterPixels \X RunLengths, MaxRuns)}

\* pixels of the images whose dominant colours are extracted: one that the
\* filter removes and two greys
ExtractPixels == {<<30, 30, 30>>, <<100, 100, 100>>, <<200, 200, 200>>}

ExtractImages == {Expand(q) : q \in SeqsUpTo(ExtractPixels \X RunLengths, MaxExtractRuns)}

(***************************************************************************)
(* Direct calls of the functions of PaletteGenerator, one per behaviour    *)
(***************************************************************************)
HarmonyCall(seed, harmony_type) ==
    \E colors \in GenerateHarmonyColors(seed[1], seed[2], seed[3], harmony_type) :
        call' = [op |-> "_generate_harmony_colors", h |-> seed[1], s |-> seed[2],
                 l |-> seed[3], harmony_type |-> harmony_type,
                 passed |-> HarmonyArgs(seed[1], seed[2], seed[3], harmony_type),
                 colors |-> colors]

CallGenerateHarmonyColors ==
    /\ call.op = "none"
    /\ \E rgb \in SeedColors, harmony_type \in HarmonyTypes :
        HarmonyCall(SeedOf(rgb), harmony_type)
    /\ UNCHANGED palette

CallSelectStyleColors ==
    /\ call.op = "none"
    /\ \E dominant_colors \in DominantLists, style \in Styles :
        call' = [op |-> "_select_style_colors", dominant_colors |-> dominant_colors,
                 style |-> style,
                 selected |-> SelectStyleColors(dominant_colors, style)]
    /\ UNCHANGED palette

\* line 242: the <<h, l, s>> rgb_to_hls gives each colour
TakenHls(colors) == [i \in 1..Len(colors) |-> RgbHls(colors[i])]

\* line 257: the <<h, l, s>> handed to hls_to_rgb for each colour
PassedHls(colors, mood, lighting) ==
    [i \in 1..Len(colors) |-> PipelineHls(colors[i], mood, lighting)]

CallApplyStyleMoodLighting ==
    /\ call.op = "none"
    /\ \E colors \in SeqsUpTo(ApplyColors, MaxApply), mood \in Moods, lighting \in Lightings :
        IF AnyRaises(colors)
        THEN call' = [op |-> "_apply_style_mood_lighting", colors |-> colors,
                      mood |-> mood, lighting |-> lighting, raised |-> TRUE,
                      taken |-> <<>>, passed |-> <<>>, adjusted |-> <<>>]
        ELSE \E adjusted \in ApplyStyleMoodLighting(colors, "scandinavian", mood, lighting) :
                call' = [op |-> "_apply_style_mood_lighting", colors |-> colors,
                         mood |-> mood, lighting |-> lighting, raised |-> FALSE,
                         taken |-> TakenHls(colors),
                         passed |-> PassedHls(colors, mood, lighting),
                         adjusted |-> adjusted]
    /\ UNCHANGED palette

CallAssignColorRoles ==
    /\ call.op = "none"
    /\ \E colors \in SeqsUpTo(RoleColors, MaxRoles) :
        \E final \in AssignColorRoles(colors) :
            call' = [op |-> "_assign_color_roles", colors |-> colors, final |-> final]
    /\ UNCHANGED palette

CallAdjustForLighting ==
    /\ call.op = "none"
    /\ \E colors \in PostedLists, lighting_type \in Lightings :
        \E adjusted_colors \in AdjustForLighting(colors, lighting_type) :
            call' = [op |-> "adjust_for_lighting", colors |-> colors,
                     lighting |-> lighting_type,
                     after |-> CallerListAfter(colors, adjusted_colors),
                     adjusted |-> adjusted_colors]
    /\ UNCHANGED palette

\* rgbToHsl followed by hslToRgb with the percentages divided by 100
RoundTrip(rgb, hsl) ==
    \E back \in HslToRgb(<<hsl.h, 1>>, Rat(hsl.s, 100), Rat(hsl.l, 100)) :
        call' = [op |-> "round_trip", rgb |-> rgb, hsl |-> hsl, back |-> back]

CallRoundTrip ==
    /\ call.op = "none"
    /\ \E rgb \in SeedColors : \E hsl \in RgbToHsl(rgb) : RoundTrip(rgb, hsl)
    /\ UNCHANGED palette

(***************************************************************************)
(* Direct calls of the functions of ColorProcessor                         *)
(***************************************************************************)
\* _rgb_to_cmyk of both classes on one colour: the results each can give
CallRgbToCmyk ==
    /\ call.op = "none"
    /\ \E rgb \in CmykColors :
        call' = [op |-> "_rgb_to_cmyk", rgb |-> rgb,
                 processor |-> ProcessorRgbToCmyk(rgb),
                 generator |-> RgbToCmyk(rgb)]
    /\ UNCHANGED palette

CallFilterExtremeColors ==
    /\ call.op = "none"
    /\ \E pixels \in FilterImages :
        call' = [op |-> "_filter_extreme_colors", pixels |-> pixels,
                 filtered |-> FilterExtremeColors(pixels)]
    /\ UNCHANGED palette

\* lines 45-56: the entries made of the sorted pairs
ExtractSorted(image, pixels, num_colors, color_counts, pairs) ==
    \E dominant_colors \in DominantColors(pairs, Len(pixels)) :
        call' = [op |-> "extract_dominant_colors", image |-> image,
                 num_colors |-> num_colors, filtered |-> Len(pixels),
                 color_counts |-> color_counts, raised |-> FALSE,
                 dominant_colors |-> dominant_colors]

\* lines 33-42
ExtractCounted(image, pixels, num_colors, labels, color_counts) ==
    \E pairs \in ZipColorsCounts(pixels, labels, color_counts) :
        ExtractSorted(image, pixels, num_colors, color_counts, SortedPairs(pairs))

\* lines 29-37
ExtractLabelled(image, pixels, num_colors, labels) ==
    ExtractCounted(image, pixels, num_colors, labels, BinCount(labels))

\* extract_dominant_colors once the pixels are filtered; KMeans.fit raises
\* on fewer pixels than clusters
ExtractFrom(image, pixels, num_colors) ==
    IF Len(pixels) < num_colors
    THEN call' = [op |-> "extract_dominant_colors", image |-> image,
                  num_colors |-> num_colors, filtered |-> Len(pixels),
                  color_counts |-> <<>>, raised |-> TRUE, dominant_colors |-> <<>>]
    ELSE \E f \in Labelings(Colors(pixels), num_colors) :
            ExtractLabelled(image, pixels, num_colors, Labels(pixels, f))

CallExtractDominantColors ==
    /\ call.op = "none"
    /\ \E image \in ExtractImages, num_colors \in 1..MaxClusters :
        ExtractFrom(image, FilterExtremeColors(image), num_colors)
    /\ UNCHANGED palette

(***************************************************************************)
(* The service: a palette is generated (/upload, /generate_palette) and    *)
(* then re-lit (/adjust_lighting)                                          *)
(***************************************************************************)
\* uploads as /upload receives them: the cluster centres of the image and
\* the chosen style, mood and lighting
Upload(dominant, style, mood, lighting) ==
    [dominant |-> dominant, style |-> style, mood |-> mood, lighting |-> lighting]

SessionUploads ==
    {Upload(<<>>, "scandinavian", "calm", "warm_light"),
     Upload(<< <<230, 178, 178>>, <<203, 176, 176>> >>, "scandinavian", "calm", "warm_light"),
     Upload(<< <<230, 178, 178>>, <<225, 210, 210>> >>, "scandinavian", "calm", "warm_light"),
     Upload(<< <<203, 176, 176>> >>, "boho", "luxury", "cool_led"),
     Upload(<< <<203, 176, 176>>, <<230, 178, 178>> >>, "industrial", "luxury", "warm_light")}

\* requests as /generate_palette receives them: base colours are raw
\* triples ([list]) or objects with or without an rgb field
Request(base_colors, harmony_type, mood, lighting) ==
    [base_colors |-> base_colors, harmony_type |-> harmony_type, mood |-> mood,
     lighting |-> lighting]

SessionRequests ==
    {Request(<<>>, "complementary", "calm", "daylight"),
     Request(<<[list |-> <<250, 3, 7>>]>>, "analogous", "calm", "candle"),
     Request(<<[list |-> <<250, 3, 7>>]>>, "tetradic", "calm", "cool_led"),
     Request(<<[list |-> <<250, 3, 7>>]>>, "complementary", "calm", "warm_light"),
     Request(<<[list |-> <<250, 3, 7>>]>>, "split", "cozy", "warm_light"),
     Request(<<[rgb |-> <<244, 250, 252>>]>>, "triadic", "luxury", "daylight"),
     Request(<<[rgb |-> <<244, 250, 252>>]>>, "monochromatic", "calm", "warm_light"),
     Request(<<[list |-> <<250, 3, 7>>]>>, "analogous", "playful", "cool_led"),
     Request(<<[hex |-> "#0a0b0c"], [list |-> <<1, 2, 3>>]>>, "complementary", "energetic", "cool_led"),
     Request(<<[list |-> <<0, 0, 0>>]>>, "monochromatic", "playful", "candle"),
     Request(<<[list |-> <<1, 2, 3>>]>>, "triadic", "cozy", "warm_light")}

\* rgb = primary_color.get('rgb', [128, 128, 128]) for a dict, else the list
PrimaryRgb(primary_color) ==
    IF "list" \in DOMAIN primary_color THEN primary_color.list ELSE RgbOf(primary_color)

\* the exception leaves the handler: no palette is returned
Raise(op, harmony_type, style, mood, lighting) ==
    /\ call' = [op |-> op, harmony_type |-> harmony_type, style |-> style,
                mood |-> mood, lighting |-> lighting, raised |-> TRUE,
                harmony |-> <<>>, colors |-> <<>>]
    /\ UNCHANGED palette

\* _assign_color_roles and the returned record (name and created_at, a
\* random phrase and the clock, are left out)
AssignStage(op, harmony, adjusted, harmony_type, style, mood, lighting) ==
    IF AnyRaises(adjusted) THEN Raise(op, harmony_type, style, mood, lighting)
    ELSE \E final \in AssignColorRoles(adjusted) :
            /\ call' = [op |-> op, harmony_type |-> harmony_type, style |-> style,
                        mood |-> mood, lighting |-> lighting, raised |-> FALSE,
                        harmony |-> harmony, colors |-> final]
            /\ palette' = final

\* _apply_style_mood_lighting on the harmony colours
AdjustStage(op, harmony, harmony_type, style, mood, lighting) ==
    IF AnyRaises(harmony) THEN Raise(op, harmony_type, style, mood, lighting)
    ELSE \E adjusted \in ApplyStyleMoodLighting(harmony, style, mood, lighting) :
            AssignStage(op, harmony, adjusted, harmony_type, style, mood, lighting)

\* _generate_harmony_colors from the seed
HarmonyStage(op, seed, harmony_type, style, mood, lighting) ==
    \E harmony \in GenerateHarmonyColors(seed[1], seed[2], seed[3], harmony_type) :
        AdjustStage(op, harmony, harmony_type, style, mood, lighting)

\* generate_palette, lines 76-82
FromBase(base_colors, style, mood, lighting) ==
    IF base_colors # <<>>
    THEN HarmonyStage("generate_palette", SeedOf(base_colors[1]), "complementary",
                      style, mood, lighting)
    ELSE AdjustStage("generate_palette", base_colors, "complementary", style, mood, lighting)

GeneratePalette ==
    /\ call.op = "none"
    /\ \E upload \in SessionUploads : \E dominant_colors \in DominantOf(upload.dominant) :
        FromBase(SelectStyleColors(dominant_colors, upload.style), upload.style,
                 upload.mood, upload.lighting)

GenerateHarmonyPalette ==
    /\ call.op = "none"
    /\ \E request \in SessionRequests :
        IF request.base_colors = <<>>
        THEN Raise("generate_harmony_palette", request.harmony_type, "japandi",
                   request.mood, request.lighting)
        ELSE HarmonyStage("generate_harmony_palette",
                          SeedOf(PrimaryRgb(request.base_colors[1])),
                          request.harmony_type, "japandi", request.mood, request.lighting)

\* /adjust_lighting on the palette the client holds, which then holds the
\* returned one
AdjustLighting ==
    /\ call.op \in {"generate_palette", "generate_harmony_palette"}
    /\ palette # <<>>
    /\ \E colors \in {palette}, lighting_type \in {"warm_light", "cool_led"} :
        \E adjusted_colors \in AdjustForLighting(colors, lighting_type) :
            /\ call' = [op |-> "adjust_for_lighting", colors |-> colors,
                        lighting |-> lighting_type,
                        after |-> CallerListAfter(colors, adjusted_colors),
                        adjusted |-> adjusted_colors]
            /\ palette' = adjusted_colors

Init ==
    /\ call = [op |-> "none"]
    /\ palette = <<>>

Next ==
    \/ GeneratePalette
    \/ GenerateHarmonyPalette
    \/ AdjustLighting

Spec == Init /\ [][Next]_vars

UnitNext ==
    \/ CallGenerateHarmonyColors
    \/ CallSelectStyleColors
    \/ CallApplyStyleMoodLighting
    \/ CallAssignColorRoles
    \/ CallAdjustForLighting
    \/ CallRoundTrip
    \/ CallRgbToCmyk
    \/ CallFilterExtremeColors
    \/ CallExtractDominantColors

UnitSpec == Init /\ [][UnitNext]_vars

(***************************************************************************)
(* Properties                                                              *)
(***************************************************************************)
\* two colours differ by at most 1 on every channel
Within1(a, b) == \A k \in 1..3 : a[k] - b[k] \in {-1, 0, 1}

\* the fraction x lies in [0, 1]
InUnit(x) == 0 <= x[1] /\ x[1] <= x[2]

KnownSchemes == {"complementary", "analogous", "triadic", "tetradic", "monochromatic"}

\* C1: every saturation and every lightness that _generate_harmony_colors
\* passes to _hsl_to_rgb lies in [0, 1], for every seed and every scheme
C1_HarmonyArgsInUnit ==
    call.op = "_generate_harmony_colors" =>
        \A i \in 1..Len(call.passed) :
            InUnit(call.passed[i][2]) /\ InUnit(call.passed[i][3])

\* C2: _generate_harmony_colors returns exactly 5 colours, one per triple
\* it passes to _hsl_to_rgb and in that order, for each of the five scheme
\* names, and the empty sequence for any other scheme name
C2_FiveColorsOrNone ==
    call.op = "_generate_harmony_colors" =>
        /\ Len(call.colors) = (IF call.harmony_type \in KnownSchemes THEN 5 ELSE 0)
        /\ \A i \in 1..Len(call.colors) :
            /\ i <= Len(call.passed)
            /\ call.colors[i] \in HslToRgb(call.passed[i][1], call.passed[i][2],
                                           call.passed[i][3])

C2_TetradicHasFive ==
    /\ call.op = "_generate_harmony_colors"
    /\ call.harmony_type = "tetradic"
    /\ Len(call.colors) = 5
    /\ call.colors[1] # call.colors[5]

\* C3: the rgb adjust_for_lighting gives a colour is an rgb that
\* _apply_style_mood_lighting gives the same colour under the same
\* lighting and a mood without effect
C3_StandaloneEqualsPipeline ==
    call.op = "adjust_for_lighting" =>
        \A i \in 1..Len(call.colors) :
            call.adjusted[i].rgb \in PipelineRgb(RgbOf(call.colors[i]), "playful",
                                                 call.lighting)

\* hex, hsl and cmyk of an entry are the conversions of its rgb
DerivedFromRgb(color) ==
    /\ color.hex = RgbToHex(color.rgb)
    /\ color.hsl \in RgbToHsl(color.rgb)
    /\ color.cmyk \in RgbToCmyk(color.rgb)

\* C4: in every entry of the palette returned by generate_palette,
\* generate_harmony_palette or adjust_for_lighting, hex, hsl and cmyk are
\* the conversions of the entry's rgb
C4_DerivedNeverStale == \A i \in 1..Len(palette) : DerivedFromRgb(palette[i])

\* the percentage p lies in the inclusive range of fractions
InRange(range, p) ==
    /\ range[1][1] * 100 <= p * range[1][2]
    /\ p * range[2][2] <= range[2][1] * 100

RuleOf(style) ==
    IF style \in DOMAIN StyleRules THEN StyleRules[style] ELSE StyleRules["scandinavian"]

Qualifies(color_info, style) ==
    /\ InRange(RuleOf(style).saturation_range, color_info.hsl.s)
    /\ InRange(RuleOf(style).lightness_range, color_info.hsl.l)

RgbsOf(q) == [i \in 1..Len(q) |-> q[i].rgb]

Qualifying(q, style) == SelectSeq(q, LAMBDA c : Qualifies(c, style))

UpToThree(q) == SubSeq(q, 1, IF Len(q) < 3 THEN Len(q) ELSE 3)

Elements(q) == {q[i] : i \in 1..Len(q)}

\* C5: _select_style_colors returns the rgb, in rank order, of the dominant
\* colours whose s/100 and l/100 lie in the style's inclusive ranges, the
\* rgb of the first three dominant colours if there is none, an unknown
\* style using the scandinavian ranges; under saturation [0.1, 0.4] and
\* lightness [0.75, 0.95] a colour with s 50, l 80 does not qualify and a
\* colour with s 20, l 85 is selected
C5_SeedSelection ==
    call.op = "_select_style_colors" =>
        /\ call.selected =
              (IF Qualifying(call.dominant_colors, call.style) # <<>>
               THEN RgbsOf(Qualifying(call.dominant_colors, call.style))
               ELSE RgbsOf(UpToThree(call.dominant_colors)))
        /\ call.style \notin (DOMAIN StyleRules \ {"scandinavian"}) =>
              \A i \in 1..Len(call.dominant_colors) :
                  /\ (call.dominant_colors[i].hsl.s = 50 /\ call.dominant_colors[i].hsl.l = 80)
                        => \/ call.dominant_colors[i].rgb \notin Elements(call.selected)
                           \/ call.selected = RgbsOf(UpToThree(call.dominant_colors))
                  /\ (call.dominant_colors[i].hsl.s = 20 /\ call.dominant_colors[i].hsl.l = 85)
                        => call.dominant_colors[i].rgb \in Elements(call.selected)

C5_OneExcludedOneIncluded ==
    /\ call.op = "_select_style_colors"
    /\ call.style = "scandinavian"
    /\ Len(call.dominant_colors) = 2
    /\ call.dominant_colors[1].hsl.s = 50 /\ call.dominant_colors[1].hsl.l = 80
    /\ call.dominant_colors[2].hsl.s = 20 /\ call.dominant_colors[2].hsl.l = 85
    /\ call.selected = <<call.dominant_colors[2].rgb>>

CalmDaylight ==
    /\ call.op = "_apply_style_mood_lighting"
    /\ call.mood = "calm"
    /\ call.lighting = "daylight"

\* C6 as stated: with mood "calm" and lighting "daylight"
\* _apply_style_mood_lighting returns as many colours as it is given, each
\* within 1 per channel of its input
C6_CalmDaylightUnchanged ==
    CalmDaylight =>
        /\ ~call.raised
        /\ Len(call.adjusted) = Len(call.colors)
        /\ \A i \in 1..Len(call.colors) : Within1(call.adjusted[i], call.colors[i])

\* the colour with the saturation lowered by 0.2 and the lightness raised
\* by 0.1, both kept in [0, 1]
CalmOf(hls) ==
    Scale255(hls[1], Clamp01(Add(hls[2], <<1, 10>>)), Clamp01(Sub(hls[3], <<1, 5>>)))

\* C6 amended: with mood "calm" and lighting "daylight"
\* _apply_style_mood_lighting returns as many colours as it is given, in
\* order, each being its input with the saturation lowered by 0.2 and the
\* lightness raised by 0.1 (both kept in [0, 1]) and the hue kept
C6_CalmDaylightShifts ==
    CalmDaylight =>
        /\ ~call.raised
        /\ Len(call.adjusted) = Len(call.colors)
        /\ \A i \in 1..Len(call.colors) :
            call.adjusted[i] \in CalmOf(RgbHls(call.colors[i]))

C6_CalmChangesColor ==
    /\ CalmDaylight
    /\ Len(call.colors) = 2
    /\ Len(call.adjusted) = 2
    /\ ~Within1(call.adjusted[1], call.colors[1])

UnknownMoodNoLight ==
    /\ call.op = "_apply_style_mood_lighting"
    /\ call.mood \notin DOMAIN MoodAdjustments
    /\ call.lighting \notin (DOMAIN LightingAdjustments \ {"daylight"})

\* C7: with a mood that is not in the mood table and a lighting that is
\* "daylight" or not in the lighting table, _apply_style_mood_lighting does
\* not raise and returns every colour within 1 per channel of its input
C7_UnknownNamesZeroEffect ==
    UnknownMoodNoLight =>
        /\ ~call.raised
        /\ Len(call.adjusted) = Len(call.colors)
        /\ \A i \in 1..Len(call.colors) : Within1(call.adjusted[i], call.colors[i])

C7_UnknownMoodAndLighting ==
    /\ UnknownMoodNoLight
    /\ call.lighting = "candle"
    /\ Len(call.colors) = 2
    /\ call.adjusted[1] # call.colors[1]
    /\ call.adjusted[2] = call.colors[2]

\* C8: adjust_for_lighting returns one entry per input entry, in order,
\* each with every field of its input entry but rgb and hex, which are set
\* anew, and the caller's entries are as they were
C8_OnlyRgbAndHexRewritten ==
    call.op = "adjust_for_lighting" =>
        /\ Len(call.adjusted) = Len(call.colors)
        /\ \A i \in 1..Len(call.colors) :
            /\ DOMAIN call.adjusted[i] = DOMAIN call.colors[i] \cup {"rgb", "hex"}
            /\ \A k \in DOMAIN call.colors[i] \ {"rgb", "hex"} :
                call.adjusted[i][k] = call.colors[i][k]
            /\ call.adjusted[i].hex = RgbToHex(call.adjusted[i].rgb)
        /\ call.after = call.colors

C8_LockedEntryRelit ==
    /\ call.op = "adjust_for_lighting"
    /\ call.lighting = "warm_light"
    /\ Len(call.colors) = 2
    /\ call.colors[1].locked
    /\ call.adjusted[1].locked
    /\ call.adjusted[1].rgb # call.colors[1].rgb
    /\ call.adjusted[2].role = "Secondary"

ExpectedRoles ==
    <<"Primary", "Secondary", "Accent", "Neutral", "Background", "Color 6", "Color 7",
      "Color 8">>

\* C9: _assign_color_roles on N colours returns N entries in the same
\* order, entry i (from 0) with role Primary, Secondary, Accent, Neutral,
\* Background for i = 0..4 and "Color i+1" from i = 5 on, and locked false
C9_RolesInOrder ==
    call.op = "_assign_color_roles" =>
        /\ Len(call.final) = Len(call.colors)
        /\ \A i \in 1..Len(call.final) :
            /\ call.final[i].rgb = call.colors[i]
            /\ call.final[i].locked = FALSE
            /\ i <= Len(ExpectedRoles) => call.final[i].role = ExpectedRoles[i]

C9_SevenColors ==
    /\ call.op = "_assign_color_roles"
    /\ Len(call.colors) = 7
    /\ call.final[6].role = "Color 6"
    /\ call.final[7].role = "Color 7"

\* C10: rgbToHsl followed by hslToRgb, the percentages divided by 100,
\* gives a colour within 1 per channel of the original
C10_RoundTripWithin1 ==
    call.op = "round_trip" => Within1(call.back, call.rgb)

RECURSIVE FrequencySum(_, _)
FrequencySum(q, n) == IF n = 0 THEN <<0, 1>> ELSE Add(FrequencySum(q, n - 1), q[n].frequency)

\* C11: extract_dominant_colors with target count K on an image of at
\* least K pixels returns exactly K entries, entry i with rank i, the
\* frequencies non-increasing, each a cluster's pixel count over the number
\* of filtered pixels, and summing to 1
C11_ExactlyKRankedEntries ==
    (call.op = "extract_dominant_colors" /\ Len(call.image) >= call.num_colors) =>
        /\ ~call.raised
        /\ Len(call.dominant_colors) = call.num_colors
        /\ \A i \in 1..Len(call.dominant_colors) :
            /\ call.dominant_colors[i].rank = i
            /\ \E j \in 1..Len(call.color_counts) :
                call.dominant_colors[i].frequency[1] * call.filtered
                    = call.color_counts[j] * call.dominant_colors[i].frequency[2]
            /\ i > 1 => Le(call.dominant_colors[i].frequency,
                           call.dominant_colors[i - 1].frequency)
        /\ FrequencySum(call.dominant_colors, Len(call.dominant_colors)) = <<1, 1>>

Percent(x) == x \in 0..100

\* C12: _rgb_to_cmyk returns four integers in 0..100, c = m = y = 0 and
\* k = 100 for (0, 0, 0), all four 0 for (255, 255, 255), and the copy of
\* ColorProcessor returns what the copy of PaletteGenerator returns
C12_CmykPercentagesBothCopies ==
    call.op = "_rgb_to_cmyk" =>
        /\ call.processor # {}
        /\ \A x \in call.processor \cup call.generator :
            Percent(x.c) /\ Percent(x.m) /\ Percent(x.y) /\ Percent(x.k)
        /\ call.rgb = <<0, 0, 0>> =>
              call.processor = {[c |-> 0, m |-> 0, y |-> 0, k |-> 100]}
        /\ call.rgb = <<255, 255, 255>> =>
              call.processor = {[c |-> 0, m |-> 0, y |-> 0, k |-> 0]}
        /\ call.processor = call.generator

C12_DarkBlue ==
    /\ call.op = "_rgb_to_cmyk"
    /\ call.rgb = <<0, 1, 51>>
    /\ \E x \in call.processor : x.c = 100 /\ x.m = 98 /\ x.y \in {0} /\ x.k = 80

\* the hue h1 is what the lighting makes of the hue h0
SaturatingShift(h0, h1, lighting) ==
    IF lighting = "warm_light"
    THEN h1 = (IF Lt(h0, <<49, 50>>) THEN Add(h0, <<1, 50>>) ELSE h0)
    ELSE IF lighting = "cool_led"
    THEN h1 = (IF Lt(<<1, 50>>, h0) THEN Sub(h0, <<1, 50>>) ELSE h0)
    ELSE h1 = h0

\* C13: in _apply_style_mood_lighting a warm lighting adds 0.02 to a hue
\* below 0.98 and leaves any other hue, a cool lighting takes 0.02 from a
\* hue above 0.02 and leaves any other hue, any other lighting leaves the
\* hue; the hue handed to hls_to_rgb is in [0, 1) and the saturation and
\* lightness handed to it are in [0, 1]
C13_HueShiftSaturates ==
    call.op = "_apply_style_mood_lighting" =>
        \A i \in 1..Len(call.passed) :
            /\ SaturatingShift(call.taken[i][1], call.passed[i][1], call.lighting)
            /\ 0 <= call.passed[i][1][1] /\ call.passed[i][1][1] < call.passed[i][1][2]
            /\ InUnit(call.passed[i][2])
            /\ InUnit(call.passed[i][3])

C13_WarmAtTheTop ==
    /\ call.op = "_apply_style_mood_lighting"
    /\ call.lighting = "warm_light"
    /\ Len(call.passed) = 2
    /\ call.taken[1][1] = <<49, 50>> /\ call.passed[1][1] = <<49, 50>>
    /\ Lt(call.taken[2][1], <<49, 50>>) /\ call.passed[2][1] # call.taken[2][1]

\* C14: _filter_extreme_colors returns the pixels whose mean channel value
\* is above 30 and below 225, in their order, unless fewer than a tenth of
\* the pixels remain, and then all the pixels; with exactly a tenth left
\* the filtered pixels are returned, and pixels never give an empty result
C14_BrightnessFilter ==
    call.op = "_filter_extreme_colors" =>
        /\ call.filtered =
              (IF 10 * Len(SelectSeq(call.pixels,
                            LAMBDA p : 90 < p[1] + p[2] + p[3] /\ p[1] + p[2] + p[3] < 675))
                    < Len(call.pixels)
               THEN call.pixels
               ELSE SelectSeq(call.pixels,
                        LAMBDA p : 90 < p[1] + p[2] + p[3] /\ p[1] + p[2] + p[3] < 675))
        /\ call.pixels # <<>> => call.filtered # <<>>

C14_ExactlyATenthLeft ==
    /\ call.op = "_filter_extreme_colors"
    /\ Len(call.pixels) = 10
    /\ Len(call.filtered) = 1
    /\ call.filtered[1] = <<30, 30, 31>>

LowerHex == <<"0", "1", "2", "3", "4", "5", "6", "7", "8", "9", "a", "b", "c", "d", "e", "f">>

HexPair(n) == LowerHex[(n \div 16) + 1] \o LowerHex[(n % 16) + 1]

\* C15: every colour of a palette generate_harmony_palette returns has its
\* three channels in 0..255 and a hex field of '#' and six lowercase hex
\* digits, whatever the seed, scheme, mood and lighting, also when harmony
\* colours are out of range
C15_FinalChannelsInRange ==
    (call.op = "generate_harmony_palette" /\ ~call.raised) =>
        \A i \in 1..Len(call.colors) :
            /\ \A k \in 1..3 : call.colors[i].rgb[k] \in 0..255
            /\ call.colors[i].hex =
                  "#" \o HexPair(call.colors[i].rgb[1]) \o HexPair(call.colors[i].rgb[2])
                      \o HexPair(call.colors[i].rgb[3])

C15_HarmonyOutOfRange ==
    /\ call.op = "generate_harmony_palette"
    /\ ~call.raised
    /\ call.mood = "calm"
    /\ Len(call.colors) = 5
    /\ \E i \in 1..Len(call.harmony) : call.harmony[i][1] > 255
====
